---------------------------- MODULE Spec2Model ----------------------------
(***************************************************************************)
(* Model of backup/main.py: the backup pipeline (cmd_backup), the restore  *)
(* pipeline (cmd_restore) and the file system both act on.                 *)
(*                                                                         *)
(* A path is a sequence of segments; a leading "/" segment marks an        *)
(* absolute name.  The file system is a function from absolute paths to    *)
(* regular files or symbolic links.  File bytes are small naturals; the    *)
(* bytes of an archive are its member sequence plus a flag saying whether  *)
(* the stream was closed.  hashlib digests are idealised as collision-free *)
(* (the pair of algorithm name and bytes).  creation_time plays no part in *)
(* any decision of the code and is left out of the manifest record.        *)
(***************************************************************************)
EXTENDS Integers, Sequences, FiniteSets, TLC

\* Number of distinct byte contents a regular file may hold.
MaxData == 2
\* Largest number of members of an archive an outside party substitutes.
MaxMembers == 2

VARIABLES
    disk,            \* absolute path -> [kind, data] | [kind, target]
    cwd,             \* the process working directory (os.getcwd)
    archive,         \* the <archive_name>.tar.gz file, or NoFile
    manifestFile,    \* the <archive_name>.manifest file, or NoFile
    pc,              \* position in cmd_backup / cmd_restore
    algorithm,       \* args.checksum_algorithm of the backup run
    todo,            \* files os.walk has still to yield
    paths_to_backup, \* cmd_backup local
    manifest,        \* the in-memory manifest of cmd_backup / cmd_restore
    old_path,        \* cd(): the directory saved on entry
    idx,             \* extractall: index of the next member to write
    path_checksums,  \* cmd_restore local
    bad_checksums,   \* cmd_restore local: path -> ChecksumMismatch
    restored_paths,  \* cmd_restore local
    missing_paths,   \* cmd_restore local
    exit,            \* the value main() returns, "none" before, "crash" if it raised
    error,           \* the exception raised, "none" if none
    wrote,           \* history: absolute paths extractall has written
    source,          \* history: the backed-up tree as it was when backup ran
    env              \* history: kinds of outside interference that happened

vars == <<disk, cwd, archive, manifestFile, pc, algorithm, todo, paths_to_backup,
          manifest, old_path, idx, path_checksums, bad_checksums, restored_paths,
          missing_paths, exit, error, wrote, source, env>>

NoFile == "absent"
EX_OK == "EX_OK"
EX_DATAERR == "EX_DATAERR"

Data == 1..MaxData

----------------------------------------------------------------------------
\* Paths

\* The working directory the commands are started in, /w.
WorkDir == <<"w">>
\* args.path of backup, relative to the working directory: d.
BackupPath == <<"d">>
\* args.path of restore, relative to the working directory: r.
RestorePath == <<"r">>

\* The characters of a path segment.
SegChars(s) ==
    CASE s = "w" -> <<"w">>
      [] s = "d" -> <<"d">>
      [] s = "a" -> <<"a">>
      [] s = "b" -> <<"b">>
      [] s = "x" -> <<"x">>
      [] s = "r" -> <<"r">>
      [] s = "re" -> <<"r", "e">>
      [] s = ".." -> <<".", ".">>

\* The string of an absolute path, as a sequence of characters.
RECURSIVE PathChars(_)
PathChars(p) ==
    IF p = <<>> THEN <<>>
    ELSE <<"/">> \o SegChars(Head(p)) \o PathChars(Tail(p))

PathStr(p) == IF p = <<>> THEN <<"/">> ELSE PathChars(p)

\* os.path.normpath on an absolute path: ".." drops the segment before it.
RECURSIVE Norm(_, _)
Norm(done, rest) ==
    IF rest = <<>> THEN done
    ELSE IF Head(rest) = ".."
         THEN Norm(IF done = <<>> THEN <<>> ELSE SubSeq(done, 1, Len(done) - 1),
                   Tail(rest))
         ELSE Norm(Append(done, Head(rest)), Tail(rest))

IsAbs(name) == name # <<>> /\ Head(name) = "/"

\* os.path.abspath(os.path.join(".", name)) with the working directory at.
AbsPath(at, name) ==
    IF IsAbs(name) THEN Norm(<<>>, Tail(name)) ELSE Norm(<<>>, at \o name)

\* os.path.commonprefix of two strings: the longest common leading characters.
RECURSIVE CommonPrefix(_, _)
CommonPrefix(s, t) ==
    IF s = <<>> \/ t = <<>> \/ Head(s) # Head(t) THEN <<>>
    ELSE <<Head(s)>> \o CommonPrefix(Tail(s), Tail(t))

\* is_within_directory(".", os.path.join(".", name)) with the working directory at.
is_within_directory(at, name) ==
    LET abs_directory == PathStr(AbsPath(at, <<>>))
        abs_target == PathStr(AbsPath(at, name))
    IN  CommonPrefix(abs_directory, abs_target) = abs_directory

\* p lies in the directory tree rooted at dir.
Under(dir, p) == Len(p) > Len(dir) /\ SubSeq(p, 1, Len(dir)) = dir

\* Path.relative_to: p without its leading dir.
RelativeTo(p, dir) == SubSeq(p, Len(dir) + 1, Len(p))

----------------------------------------------------------------------------
\* Files and digests

RegularFile(d) == [kind |-> "file", data |-> d]
SymLink(t) == [kind |-> "link", target |-> t]

\* Path.resolve: the path with a symbolic link followed.
Resolve(fs, p) ==
    IF p \in DOMAIN fs /\ fs[p].kind = "link" THEN fs[p].target ELSE p

\* open(p): whether a file is there to read.
Exists(fs, p) == Resolve(fs, p) \in DOMAIN fs

\* f.read(): the bytes of the file at p.
ReadBytes(fs, p) == fs[Resolve(fs, p)].data

\* os.walk(dir): the files below dir.
Walk(fs, dir) == {p \in DOMAIN fs : Under(dir, p)}

\* hashlib.algorithms_available, cut down to two names.
Algorithms == {"sha1", "md5"}

\* hashlib.new(checksum_algorithm); update(bytes); hexdigest().
Hexdigest(alg, bytes) == <<alg, bytes>>

\* Writing, and removing, one file.
WriteFile(fs, p, f) == (p :> f) @@ fs
RemoveFile(fs, p) == [q \in (DOMAIN fs) \ {p} |-> fs[q]]

----------------------------------------------------------------------------
\* Initial state: a tree d/ under the working directory holding the regular
\* file d/a and possibly d/b, a regular file or a symbolic link to d/a; an
\* empty restore directory r/; no archive and no manifest.

FileA == WorkDir \o BackupPath \o <<"a">>
FileB == WorkDir \o BackupPath \o <<"b">>

Trees ==
    {(FileA :> RegularFile(d)) : d \in Data}
    \cup {(FileA :> RegularFile(d)) @@ (FileB :> RegularFile(e)) : d \in Data, e \in Data}
    \cup {(FileA :> RegularFile(d)) @@ (FileB :> SymLink(FileA)) : d \in Data}

EmptyManifest(alg) ==
    [archive_name |-> "archive.tar.gz", checksum |-> "",
     checksum_algorithm |-> alg, files |-> <<>>]

Init ==
    /\ disk \in Trees
    /\ source = disk
    /\ cwd = WorkDir
    /\ archive = NoFile
    /\ manifestFile = NoFile
    /\ algorithm \in Algorithms
    /\ manifest = EmptyManifest(algorithm)
    /\ paths_to_backup = <<>>
    /\ todo = Walk(disk, cwd \o BackupPath)
    /\ pc = "b_walk"
    /\ old_path = cwd
    /\ idx = 1
    /\ path_checksums = <<>>
    /\ bad_checksums = <<>>
    /\ restored_paths = {}
    /\ missing_paths = {}
    /\ exit = "none"
    /\ error = "none"
    /\ wrote = {}
    /\ env = {}

restoreVars == <<old_path, idx, path_checksums, bad_checksums, restored_paths,
                 missing_paths, wrote>>

----------------------------------------------------------------------------
\* cmd_backup

\* One turn of the os.walk loop: the relative path of the resolved file is
\* appended to paths_to_backup and, with the file's checksum, to the manifest.
BackupVisit ==
    /\ pc = "b_walk"
    /\ \E file_path \in todo :
         LET relative_path == RelativeTo(Resolve(disk, file_path), cwd)
             entry == [path |-> relative_path,
                       checksum |-> Hexdigest(manifest.checksum_algorithm,
                                              ReadBytes(disk, file_path))]
         IN  /\ paths_to_backup' = Append(paths_to_backup, relative_path)
             /\ manifest' = [manifest EXCEPT !.files = Append(@, entry)]
             /\ todo' = todo \ {file_path}
    /\ UNCHANGED <<disk, cwd, archive, manifestFile, pc, algorithm, exit, error,
                   source, env, restoreVars>>

\* tar_files: tarfile.open(..., "w:gz") creates the archive file.
TarOpen ==
    /\ pc = "b_walk"
    /\ todo = {}
    /\ archive' = [members |-> <<>>, closed |-> FALSE]
    /\ pc' = "b_tar"
    /\ UNCHANGED <<disk, cwd, manifestFile, algorithm, todo, paths_to_backup,
                   manifest, exit, error, source, env, restoreVars>>

\* tar_files: tar.add(str(path)) for the next path.
TarAdd ==
    /\ pc = "b_tar"
    /\ Len(archive.members) < Len(paths_to_backup)
    /\ LET path == paths_to_backup[Len(archive.members) + 1]
       IN  archive' = [archive EXCEPT !.members =
                          Append(@, [name |-> path,
                                     data |-> ReadBytes(disk, cwd \o path)])]
    /\ UNCHANGED <<disk, cwd, manifestFile, pc, algorithm, todo, paths_to_backup,
                   manifest, exit, error, source, env, restoreVars>>

\* tar_files: leaving the with block closes the archive.
TarClose ==
    /\ pc = "b_tar"
    /\ Len(archive.members) = Len(paths_to_backup)
    /\ archive' = [archive EXCEPT !.closed = TRUE]
    /\ pc' = "b_sum"
    /\ UNCHANGED <<disk, cwd, manifestFile, algorithm, todo, paths_to_backup,
                   manifest, exit, error, source, env, restoreVars>>

\* manifest["checksum"] = generate_checksum(archive, algorithm).
BackupChecksum ==
    /\ pc = "b_sum"
    /\ manifest' = [manifest EXCEPT !.checksum =
                       Hexdigest(manifest.checksum_algorithm, archive)]
    /\ pc' = "b_write"
    /\ UNCHANGED <<disk, cwd, archive, manifestFile, algorithm, todo,
                   paths_to_backup, exit, error, source, env, restoreVars>>

\* json.dump(manifest, f); return os.EX_OK.  The shell is then idle until
\* restore is invoked.
BackupWriteManifest ==
    /\ pc = "b_write"
    /\ manifestFile' = manifest
    /\ pc' = "idle"
    /\ UNCHANGED <<disk, cwd, archive, algorithm, todo, paths_to_backup, manifest,
                   exit, error, source, env, restoreVars>>

----------------------------------------------------------------------------
\* Outside interference between backup and restore.  At most one happens in a
\* run (env records which).

\* Member names an outside party may put into an archive: a listed path, an
\* unlisted file, a sibling of the restore directory whose name starts with
\* the restore directory's name, a parent-directory escape, an absolute name.
ForgedNames ==
    {<<"d", "a">>, <<"x">>, <<"..", "re", "x">>, <<"..", "x">>, <<"/", "x">>}

\* The archives an outside party may write: up to MaxMembers members, all
\* carrying the same payload.
ForgedArchives ==
    {[members |-> [i \in 1..n |-> [name |-> names[i], data |-> d]], closed |-> TRUE] :
        <<n, names, d>> \in
            UNION {{<<k, ns, e>> : ns \in [1..k -> ForgedNames], e \in Data} :
                       k \in 0..MaxMembers}}

\* A digest name hashlib does not know.
Unregistered == "no-such-digest"

\* The archive's bytes are altered; the manifest is left alone.
TamperArchive ==
    /\ pc = "idle"
    /\ env = {}
    /\ \E new \in ForgedArchives :
         /\ new # archive
         /\ archive' = new
    /\ env' = {"archive"}
    /\ UNCHANGED <<disk, cwd, manifestFile, pc, algorithm, todo, paths_to_backup,
                   manifest, exit, error, source, restoreVars>>

\* The archive is replaced and the manifest's checksum recomputed over it.
ForgeArchive ==
    /\ pc = "idle"
    /\ env = {}
    /\ \E new \in ForgedArchives :
         /\ new # archive
         /\ archive' = new
         /\ manifestFile' = [manifestFile EXCEPT !.checksum =
                                Hexdigest(manifestFile.checksum_algorithm, new)]
    /\ env' = {"forged"}
    /\ UNCHANGED <<disk, cwd, pc, algorithm, todo, paths_to_backup,
                   manifest, exit, error, source, restoreVars>>

\* files[i].checksum of the manifest is altered to another digest.
TamperManifestEntry ==
    /\ pc = "idle"
    /\ env = {}
    /\ \E i \in 1..Len(manifestFile.files), d \in Data :
         LET digest == Hexdigest(manifestFile.checksum_algorithm, d)
         IN  /\ digest # manifestFile.files[i].checksum
             /\ manifestFile' = [manifestFile EXCEPT !.files[i].checksum = digest]
    /\ env' = {"manifest"}
    /\ UNCHANGED <<disk, cwd, archive, pc, algorithm, todo, paths_to_backup,
                   manifest, exit, error, source, restoreVars>>

\* checksum_algorithm of the manifest is altered to another name.
TamperAlgorithm ==
    /\ pc = "idle"
    /\ env = {}
    /\ \E name \in (Algorithms \cup {Unregistered}) \ {manifestFile.checksum_algorithm} :
         manifestFile' = [manifestFile EXCEPT !.checksum_algorithm = name]
    /\ env' = {"algorithm"}
    /\ UNCHANGED <<disk, cwd, archive, pc, algorithm, todo, paths_to_backup,
                   manifest, exit, error, source, restoreVars>>

\* A backed-up file is overwritten in place after the backup.
ChangeOriginal ==
    /\ pc = "idle"
    /\ env = {}
    /\ \E p \in Walk(disk, cwd \o BackupPath), d \in Data :
         /\ disk[p] # RegularFile(d)
         /\ disk' = WriteFile(RemoveFile(disk, p), p, RegularFile(d))
    /\ env' = {"original"}
    /\ UNCHANGED <<cwd, archive, manifestFile, pc, algorithm, todo, paths_to_backup,
                   manifest, exit, error, source, restoreVars>>

\* A backed-up file is lost after the backup.
DeleteOriginal ==
    /\ pc = "idle"
    /\ env = {}
    /\ \E p \in Walk(disk, cwd \o BackupPath) : disk' = RemoveFile(disk, p)
    /\ env' = {"original"}
    /\ UNCHANGED <<cwd, archive, manifestFile, pc, algorithm, todo, paths_to_backup,
                   manifest, exit, error, source, restoreVars>>

\* A restored file is deleted between extraction and reconciliation.
DeleteRestored ==
    /\ pc = "r_recon"
    /\ env = {}
    /\ \E p \in Walk(disk, AbsPath(cwd, RestorePath)) : disk' = RemoveFile(disk, p)
    /\ env' = {"restored"}
    /\ UNCHANGED <<cwd, archive, manifestFile, pc, algorithm, todo, paths_to_backup,
                   manifest, exit, error, source, restoreVars>>

----------------------------------------------------------------------------
\* cmd_restore

\* json.load(f) of the manifest file.
RestoreLoad ==
    /\ pc = "idle"
    /\ manifest' = manifestFile
    /\ pc' = "r_verify"
    /\ UNCHANGED <<disk, cwd, archive, manifestFile, algorithm, todo,
                   paths_to_backup, exit, error, source, env, restoreVars>>

\* Mutation of ArchiveChecksumMatches: the comparison is skipped.
ArchiveChecksumIgnored(m, a) == TRUE

\* generated_checksum == manifest["checksum"], for the archive bytes a.
ArchiveChecksumMatches(m, a) == Hexdigest(m.checksum_algorithm, a) = m.checksum

\* generate_checksum of the archive and the comparison with the manifest:
\* hashlib.new raises ValueError on an unknown name; a mismatch returns
\* os.EX_DATAERR.
RestoreVerify ==
    /\ pc = "r_verify"
    /\ IF manifest.checksum_algorithm \notin Algorithms
       THEN /\ error' = "ValueError"
            /\ exit' = "crash"
            /\ pc' = "done"
       ELSE IF ~ArchiveChecksumMatches(manifest, archive)
       THEN /\ exit' = EX_DATAERR
            /\ pc' = "done"
            /\ UNCHANGED error
       ELSE /\ pc' = "r_cd"
            /\ UNCHANGED <<exit, error>>
    /\ UNCHANGED <<disk, cwd, archive, manifestFile, algorithm, todo,
                   paths_to_backup, manifest, source, env, restoreVars>>

\* cd(args.path), entry: old_path = Path.cwd(); os.chdir(path).
CdEnter ==
    /\ pc = "r_cd"
    /\ old_path' = cwd
    /\ cwd' = AbsPath(cwd, RestorePath)
    /\ pc' = "r_check"
    /\ UNCHANGED <<disk, archive, manifestFile, algorithm, todo, paths_to_backup,
                   manifest, idx, path_checksums, bad_checksums, restored_paths,
                   missing_paths, exit, error, wrote, source, env>>

\* safe_extract, the loop over tar.getmembers(): raises on the first member
\* is_within_directory rejects.
SafeExtractCheck ==
    /\ pc = "r_check"
    /\ IF \E i \in 1..Len(archive.members) :
             ~is_within_directory(cwd, archive.members[i].name)
       THEN /\ error' = "Exception"
            /\ pc' = "r_unwind"
            /\ UNCHANGED idx
       ELSE /\ idx' = 1
            /\ pc' = "r_extract"
            /\ UNCHANGED error
    /\ UNCHANGED <<disk, cwd, archive, manifestFile, algorithm, todo,
                   paths_to_backup, manifest, old_path, path_checksums,
                   bad_checksums, restored_paths, missing_paths, exit, wrote,
                   source, env>>

\* tar.extractall("."): the next member is written below the working directory.
ExtractMember ==
    /\ pc = "r_extract"
    /\ idx <= Len(archive.members)
    /\ LET member == archive.members[idx]
           dest == AbsPath(cwd, member.name)
       IN  /\ disk' = WriteFile(RemoveFile(disk, dest), dest, RegularFile(member.data))
           /\ wrote' = wrote \cup {dest}
    /\ idx' = idx + 1
    /\ UNCHANGED <<cwd, archive, manifestFile, pc, algorithm, todo, paths_to_backup,
                   manifest, old_path, path_checksums, bad_checksums,
                   restored_paths, missing_paths, exit, error, source, env>>

\* tar.extractall: writing the next member fails (OSError).
ExtractFail ==
    /\ pc = "r_extract"
    /\ idx <= Len(archive.members)
    /\ error' = "OSError"
    /\ env' = env \cup {"io"}
    /\ pc' = "r_unwind"
    /\ UNCHANGED <<disk, cwd, archive, manifestFile, algorithm, todo,
                   paths_to_backup, manifest, exit, source, restoreVars>>

\* tar.extractall returns after the last member.
ExtractFinish ==
    /\ pc = "r_extract"
    /\ idx > Len(archive.members)
    /\ pc' = "r_cdexit"
    /\ UNCHANGED <<disk, cwd, archive, manifestFile, algorithm, todo,
                   paths_to_backup, manifest, exit, error, source, env, restoreVars>>

\* Mutation of CdExit: cd() without try/finally, so that os.chdir(old_path)
\* is skipped when the block raised.
CdExitWithoutFinally ==
    /\ pc \in {"r_cdexit", "r_unwind"}
    /\ IF error = "none"
       THEN /\ cwd' = old_path
            /\ pc' = "r_recon"
            /\ UNCHANGED exit
       ELSE /\ pc' = "done"
            /\ exit' = "crash"
            /\ UNCHANGED cwd
    /\ UNCHANGED <<disk, archive, manifestFile, algorithm, todo, paths_to_backup,
                   manifest, error, source, env, restoreVars>>

\* cd(args.path), exit: the finally clause runs os.chdir(old_path) whether the
\* block returned or raised; an exception then leaves cmd_restore and main.
CdExit ==
    /\ pc \in {"r_cdexit", "r_unwind"}
    /\ cwd' = old_path
    /\ IF error = "none"
       THEN /\ pc' = "r_recon"
            /\ UNCHANGED exit
       ELSE /\ pc' = "done"
            /\ exit' = "crash"
    /\ UNCHANGED <<disk, archive, manifestFile, algorithm, todo, paths_to_backup,
                   manifest, error, source, env, restoreVars>>

\* path_checksums = {f["path"]: f["checksum"] for f in manifest["files"]}: a
\* later entry of the same path replaces an earlier one.
PathChecksums(files) ==
    [p \in {files[i].path : i \in 1..Len(files)} |->
        LET last == CHOOSE i \in 1..Len(files) :
                        /\ files[i].path = p
                        /\ \A j \in (i + 1)..Len(files) : files[j].path # p
        IN  files[last].checksum]

\* The dictionaries are set up and os.walk(args.path) starts.
ReconcileStart ==
    /\ pc = "r_recon"
    /\ path_checksums' = PathChecksums(manifest.files)
    /\ bad_checksums' = <<>>
    /\ restored_paths' = {}
    /\ todo' = Walk(disk, AbsPath(cwd, RestorePath))
    /\ pc' = "r_walk"
    /\ UNCHANGED <<disk, cwd, archive, manifestFile, algorithm, paths_to_backup,
                   manifest, old_path, idx, missing_paths, exit, error, wrote,
                   source, env>>

\* The file generate_checksum(relative_path, ...) opens: relative_path is
\* relative, so open() resolves it against the working directory.
ReconcileOpenPath(at, relative_path) == AbsPath(at, relative_path)

\* One turn of the reconciliation loop.
ReconcileVisit ==
    /\ pc = "r_walk"
    /\ \E file_path \in todo :
         LET relative_path == RelativeTo(file_path, AbsPath(cwd, RestorePath))
             opened == ReconcileOpenPath(cwd, relative_path)
         IN  /\ todo' = todo \ {file_path}
             /\ IF relative_path \notin DOMAIN path_checksums
                THEN UNCHANGED <<bad_checksums, restored_paths, pc, exit, error>>
                ELSE IF ~Exists(disk, opened)
                THEN /\ error' = "FileNotFoundError"
                     /\ exit' = "crash"
                     /\ pc' = "done"
                     /\ UNCHANGED <<bad_checksums, restored_paths>>
                ELSE LET expected_checksum == path_checksums[relative_path]
                         generated_checksum ==
                             Hexdigest(manifest.checksum_algorithm,
                                       ReadBytes(disk, opened))
                     IN  /\ IF generated_checksum # expected_checksum
                            THEN /\ bad_checksums' =
                                       (relative_path :>
                                           [generated |-> generated_checksum,
                                            expected |-> expected_checksum])
                                       @@ bad_checksums
                                 /\ UNCHANGED restored_paths
                            ELSE /\ restored_paths' = restored_paths \cup {relative_path}
                                 /\ UNCHANGED bad_checksums
                         /\ UNCHANGED <<pc, exit, error>>
    /\ UNCHANGED <<disk, cwd, archive, manifestFile, algorithm, paths_to_backup,
                   manifest, old_path, idx, path_checksums, missing_paths, wrote,
                   source, env>>

\* missing_paths: every manifest path that is not in restored_paths.
MissingPaths(checksums, restored) == {p \in DOMAIN checksums : p \notin restored}

ComputeMissing ==
    /\ pc = "r_walk"
    /\ todo = {}
    /\ missing_paths' = MissingPaths(path_checksums, restored_paths)
    /\ pc' = "r_report"
    /\ UNCHANGED <<disk, cwd, archive, manifestFile, algorithm, todo,
                   paths_to_backup, manifest, old_path, idx, path_checksums,
                   bad_checksums, restored_paths, exit, error, wrote, source, env>>

\* Mutation of Failed: the missing_paths test is left out.
FailedIgnoringMissing(bad, missing) == DOMAIN bad # {}

\* failed: set when bad_checksums or missing_paths is non-empty.
Failed(bad, missing) == DOMAIN bad # {} \/ missing # {}

\* The report and the return value.
Report ==
    /\ pc = "r_report"
    /\ exit' = IF Failed(bad_checksums, missing_paths) THEN EX_DATAERR ELSE EX_OK
    /\ pc' = "done"
    /\ UNCHANGED <<disk, cwd, archive, manifestFile, algorithm, todo,
                   paths_to_backup, manifest, error, source, env, restoreVars>>

Next ==
    \/ BackupVisit
    \/ TarOpen
    \/ TarAdd
    \/ TarClose
    \/ BackupChecksum
    \/ BackupWriteManifest
    \/ TamperArchive
    \/ ForgeArchive
    \/ TamperManifestEntry
    \/ TamperAlgorithm
    \/ ChangeOriginal
    \/ DeleteOriginal
    \/ DeleteRestored
    \/ RestoreLoad
    \/ RestoreVerify
    \/ CdEnter
    \/ SafeExtractCheck
    \/ ExtractMember
    \/ ExtractFail
    \/ ExtractFinish
    \/ CdExit
    \/ ReconcileStart
    \/ ReconcileVisit
    \/ ComputeMissing
    \/ Report

Spec == Init /\ [][Next]_vars

----------------------------------------------------------------------------
\* Properties

BackupPcs == {"b_walk", "b_tar", "b_sum", "b_write"}
\* cmd_restore has loaded the manifest.
InRestore == pc \notin BackupPcs \cup {"idle"}
\* Inside the with block of cd(args.path).
InCdScope == pc \in {"r_check", "r_extract", "r_cdexit", "r_unwind"}

\* The restore root as an absolute path, /w/r.
RestoreRoot == AbsPath(WorkDir, RestorePath)
\* The place under the restore root of the manifest path p.
RestoredFile(p) == RestoreRoot \o p
\* The paths the loaded manifest lists.
ManifestPaths == {manifest.files[i].path : i \in 1..Len(manifest.files)}
\* The checksum the loaded manifest records for p.
Recorded(p) == PathChecksums(manifest.files)[p]
\* The digest of the file restored at p.
RestoredDigest(p) ==
    Hexdigest(manifest.checksum_algorithm, ReadBytes(disk, RestoredFile(p)))
\* The digest of the archive on disk differs from the loaded manifest's checksum.
ArchiveMismatch ==
    /\ InRestore
    /\ manifest.checksum_algorithm \in Algorithms
    /\ Hexdigest(manifest.checksum_algorithm, archive) # manifest.checksum
\* The archive verified and the with block was left without an exception.
Extracted ==
    /\ pc \in {"r_recon", "r_walk", "r_report", "done"}
    /\ manifest.checksum_algorithm \in Algorithms
    /\ Hexdigest(manifest.checksum_algorithm, archive) = manifest.checksum
    /\ error \notin {"Exception", "OSError"}
\* The reconciliation loops have run to their end.
Reconciled == Extracted /\ (pc = "r_report" \/ (pc = "done" /\ error = "none"))
\* A member name whose destination is not below the restore root, compared
\* segment by segment.
EscapesRoot(name) == ~Under(RestoreRoot, AbsPath(RestoreRoot, name))

\* C1: when the archive's digest differs from the manifest's checksum, restore
\* goes from verification straight to returning EX_DATAERR: nothing is
\* written, the working directory stays as it was, and no reconciliation
\* result is produced.
VerificationPrecedesExtraction ==
    ArchiveMismatch =>
        /\ pc \in {"r_verify", "done"}
        /\ pc = "done" => exit = EX_DATAERR /\ error = "none"
        /\ wrote = {}
        /\ Walk(disk, RestoreRoot) = {}
        /\ cwd = WorkDir
        /\ DOMAIN path_checksums = {}
        /\ DOMAIN bad_checksums = {}
        /\ restored_paths = {}
        /\ missing_paths = {}

\* C1 witness: a restore of an altered archive has returned EX_DATAERR.
AlteredArchiveRejected ==
    /\ ArchiveMismatch
    /\ env = {"archive"}
    /\ pc = "done"
    /\ exit = EX_DATAERR

\* C2: an archive with a member whose destination lies outside the restore
\* root never has any member written.
EscapingArchiveWritesNothing ==
    (InRestore /\ \E i \in 1..Len(archive.members) : EscapesRoot(archive.members[i].name))
        => wrote = {}

\* C3: once reconciliation has run, restored_paths, bad_checksums and
\* missing_paths are pairwise disjoint and together are the manifest's paths.
ReconciliationPartitions ==
    Reconciled =>
        /\ restored_paths \cap DOMAIN bad_checksums = {}
        /\ restored_paths \cap missing_paths = {}
        /\ DOMAIN bad_checksums \cap missing_paths = {}
        /\ restored_paths \cup DOMAIN bad_checksums \cup missing_paths = ManifestPaths

\* C4: reconciliation never stops at a file, and once it has run every
\* manifest path is classified by the file restored at it: matching digest in
\* restored_paths, differing digest in bad_checksums with both digests,
\* absent in missing_paths.
ReconciliationClassifiesEveryPath ==
    /\ Extracted => error # "FileNotFoundError"
    /\ Reconciled =>
         \A p \in ManifestPaths :
            IF RestoredFile(p) \in DOMAIN disk
            THEN IF RestoredDigest(p) = Recorded(p)
                 THEN p \in restored_paths
                 ELSE /\ p \in DOMAIN bad_checksums
                      /\ bad_checksums[p] = [generated |-> RestoredDigest(p),
                                             expected |-> Recorded(p)]
            ELSE p \in missing_paths

\* C5: backup of a tree of regular files followed by restore of the untouched
\* archive and manifest into the empty directory returns EX_OK with the
\* backed-up content at every manifest path and nothing bad or missing.
RoundTrip ==
    (/\ pc = "done"
     /\ \A p \in DOMAIN source : source[p].kind = "file"
     /\ env \subseteq {"original"})
        => /\ exit = EX_OK
           /\ \A p \in ManifestPaths :
                 /\ RestoredFile(p) \in DOMAIN disk
                 /\ disk[RestoredFile(p)] = source[WorkDir \o p]
           /\ DOMAIN bad_checksums = {}
           /\ missing_paths = {}

\* C6: when restore returns after a completed extraction, it returns EX_OK
\* exactly if bad_checksums and missing_paths are both empty and EX_DATAERR
\* otherwise, and what was extracted is still on disk.
ExitCodeReflectsReconciliation ==
    (Extracted /\ pc = "done" /\ error = "none") =>
        /\ exit \in {EX_OK, EX_DATAERR}
        /\ exit = EX_OK <=> (DOMAIN bad_checksums = {} /\ missing_paths = {})
        /\ "restored" \notin env => wrote \subseteq DOMAIN disk

\* C6 witness: restore has returned EX_DATAERR with extracted files on disk.
FailedWithFilesOnDisk ==
    /\ Extracted
    /\ pc = "done"
    /\ exit = EX_DATAERR
    /\ missing_paths # {}
    /\ wrote # {}
    /\ wrote \subseteq DOMAIN disk

\* C7: an unsupported digest name or a rejected path traversal ends the
\* command with an exit code.
TaxonomyErrorsReturnExitCode ==
    (pc = "done" /\ error \in {"ValueError", "Exception"})
        => exit \in {EX_OK, EX_DATAERR}

\* C8: every digest reconciliation has computed for a manifest path is the
\* digest of the file restored at that path: a path in restored_paths has a
\* restored file matching the recorded checksum, and a generated digest in
\* bad_checksums is the restored file's.
ReconciliationReadsRestoredFile ==
    (Extracted /\ pc \in {"r_walk", "r_report", "done"}) =>
        /\ \A p \in restored_paths : RestoredDigest(p) = Recorded(p)
        /\ \A p \in DOMAIN bad_checksums :
              bad_checksums[p].generated = RestoredDigest(p)

\* C9: the working directory is the restore root only inside the cd() block
\* and the directory of entry everywhere else, whichever way the block is left.
WorkingDirectoryScoped ==
    /\ cwd \in {WorkDir, RestoreRoot}
    /\ cwd = RestoreRoot => InCdScope
    /\ ~InCdScope => cwd = old_path /\ cwd = WorkDir

\* C9 witness: restore has ended on a rejected path traversal, back in the
\* directory of entry.
RejectedAndBack ==
    /\ pc = "done"
    /\ error = "Exception"
    /\ old_path = WorkDir
    /\ cwd = WorkDir

\* C10: a manifest on disk that nobody altered carries the digest of the
\* closed archive and one entry per member, in order, with unique paths.
ManifestDescribesArchive ==
    (pc \notin BackupPcs /\ env \cap {"archive", "forged", "manifest", "algorithm"} = {})
        => /\ archive.closed
           /\ manifestFile.checksum =
                  Hexdigest(manifestFile.checksum_algorithm, archive)
           /\ Len(manifestFile.files) = Len(archive.members)
           /\ \A i \in 1..Len(manifestFile.files) :
                 manifestFile.files[i].path = archive.members[i].name
           /\ \A i, j \in 1..Len(manifestFile.files) :
                 i # j => manifestFile.files[i].path # manifestFile.files[j].path

=============================================================================
